---- MODULE Spec2Model ----
(***************************************************************************)
(* The dynamic currency command of the Discord bots of this repository:   *)
(* handle_currency_command of combinedversion.py / version5.py and the    *)
(* same code inlined in on_message of currency.py.                        *)
(*                                                                         *)
(* A string is a sequence of one-character strings, so that the regular   *)
(* expressions, str.split, str.upper and float() are computed character   *)
(* by character.  A number produced by float() is a record                *)
(* [int |-> n, frac |-> digits], the fraction digits without trailing     *)
(* zeros (binary rounding of float is not modelled).                      *)
(***************************************************************************)
EXTENDS Integers, Sequences, FiniteSets, TLC

VARIABLES
    variant,          \* which file runs: "combined" (combinedversion.py, version5.py) or "currency" (currency.py)
    content,          \* message.content
    pc,               \* position of the handler coroutine
    base_currency,    \* local of the handler
    amount,           \* local of the handler
    target_currency,  \* local of the handler
    sent,             \* what the handler has sent or edited on the channel, in order
    fetch_call,       \* arguments of the pending fetch_exchange_rates call, or None
    rates_data,       \* what fetch_exchange_rates returned
    rate_lines,       \* the rendered lines, one per rate
    next_line,        \* position of the for loop in rate_lines
    current_chunk,    \* the accumulator of the loop
    message,          \* who wrote the message and where: [own, dm, mentioned]
    invoked,          \* the handlers on_message has called for the message, in order
    now,              \* time.time(), in tenths of a second
    last_gemini_call_time,  \* the global of that name
    mention_pc,       \* position of the handler of each mention
    gemini_calls,     \* the times at which generate_content_async was called
    ai_response_len,  \* len(ai_response_text) of each mention, 0 before the response
    replies,          \* what the handler of each mention has sent of the response, in order
    user_data,        \* the user data file: the registered users in the order of the file
    daily_pc,         \* position of send_daily_horoscopes
    daily_users,      \* its local users, loaded at the start of a run
    daily_i,          \* position of its for loop
    command_pc,       \* position of the command or callback of each user
    events,           \* records saved, confirmations sent and direct messages sent, in order
    cache_users,      \* the keys of search_results_cache
    search_results_cache,  \* the list cached for each key
    music_pc,         \* position of the !s command of each user
    download,         \* what the last !d did
    user_records,     \* v10: the user data file, the record of each user
    views,            \* v10: the selection menus that are open
    loaded,           \* v10: users as the last handler loaded it
    notice            \* v10: the answer of the last handler

parse_vars == <<variant, content, base_currency, amount, target_currency>>
chunk_vars == <<rates_data, rate_lines, next_line, current_chunk>>
route_vars == <<message, invoked>>
gemini_vars == <<now, last_gemini_call_time, mention_pc, gemini_calls, ai_response_len, replies>>
daily_vars == <<user_data, daily_pc, daily_users, daily_i, command_pc, events>>
music_vars == <<cache_users, search_results_cache, music_pc, download>>
store_vars == <<user_records, views, loaded, notice>>
world_vars == <<route_vars, gemini_vars, daily_vars, music_vars, store_vars>>
vars == <<parse_vars, pc, sent, fetch_call, chunk_vars, world_vars>>

-----------------------------------------------------------------------------
(* Bounds of the inputs *)

\* longest run of letters that starts a generated first token
MaxCode == 5
\* longest digits-and-dots run attached to a generated first token
MaxSuffix == 5
\* longest generated second token
MaxArg == 3
\* longest run of blanks around and between tokens
MaxPad == 2
\* most rates in a rate table
MaxLines == 4
\* most mentions of the bot
MaxMentions == 2
\* longest time watched, in tenths of a second
MaxClock == 13
\* most users of the horoscope
NumUsers == 2
\* most records saved, confirmations and direct messages
MaxEvents == 4
\* most songs the search service finds
MaxFound == 11
\* most selection menus open at a time
MaxViews == 2

-----------------------------------------------------------------------------
(* Characters and strings *)

None == <<"<None>">>

COMMAND_PREFIX == <<"!">>

LowerLetters == {"u", "s", "d", "t", "z", "m", "y", "r", "e", "x", "h", "l", "p"}
UpperLetters == {"U", "S", "D", "T", "Z", "M", "Y", "R", "E", "X", "H", "L", "P"}
Digits == {"0", "1", "7"}
Whitespace == {" "}

UpperChar(c) ==
    CASE c = "u" -> "U" [] c = "s" -> "S" [] c = "d" -> "D" [] c = "t" -> "T"
      [] c = "z" -> "Z" [] c = "m" -> "M" [] c = "y" -> "Y" [] c = "r" -> "R"
      [] c = "e" -> "E" [] c = "x" -> "X" [] c = "h" -> "H" [] c = "l" -> "L"
      [] c = "p" -> "P" [] OTHER -> c

\* the text left as typed
UpperMissing(s) == s

\* str.upper()
Upper(s) == [i \in 1..Len(s) |-> UpperChar(s[i])]

\* s[n:]
DropFirst(s, n) == SubSeq(s, n + 1, Len(s))

RECURSIVE LStrip(_)
LStrip(s) == IF s # <<>> /\ Head(s) \in Whitespace THEN LStrip(Tail(s)) ELSE s

RECURSIVE RStrip(_)
RStrip(s) ==
    IF s # <<>> /\ s[Len(s)] \in Whitespace THEN RStrip(SubSeq(s, 1, Len(s) - 1)) ELSE s

\* str.strip()
Strip(s) == RStrip(LStrip(s))

RECURSIVE SplitFrom(_, _, _)
SplitFrom(s, word, acc) ==
    IF s = <<>>
    THEN IF word = <<>> THEN acc ELSE Append(acc, word)
    ELSE IF Head(s) \in Whitespace
         THEN SplitFrom(Tail(s), <<>>, IF word = <<>> THEN acc ELSE Append(acc, word))
         ELSE SplitFrom(Tail(s), Append(word, Head(s)), acc)

\* str.split() with no argument: the words between runs of whitespace
Split(s) == SplitFrom(s, <<>>, <<>>)

AllIn(s, S) == \A i \in 1..Len(s) : s[i] \in S

-----------------------------------------------------------------------------
(* float() on the strings the two patterns let through *)

DigitVal(c) == CASE c = "0" -> 0 [] c = "1" -> 1 [] c = "7" -> 7 [] OTHER -> 0

RECURSIVE IntVal(_)
IntVal(s) == IF s = <<>> THEN 0 ELSE 10 * IntVal(SubSeq(s, 1, Len(s) - 1)) + DigitVal(s[Len(s)])

RECURSIVE StripZeros(_)
StripZeros(s) ==
    IF s # <<>> /\ s[Len(s)] = "0" THEN StripZeros(SubSeq(s, 1, Len(s) - 1)) ELSE s

\* number of leading characters of s that are digits
RECURSIVE LeadDigits(_)
LeadDigits(s) == IF s # <<>> /\ Head(s) \in Digits THEN 1 + LeadDigits(Tail(s)) ELSE 0

Number(ip, fp) == [int |-> IntVal(ip), frac |-> StripZeros(fp)]

One == [int |-> 1, frac |-> <<>>]

IsPositive(x) == x.int > 0 \/ x.frac # <<>>

\* float() refusing a number without a dot
PyFloatNeedsDot(s) ==
    LET n    == LeadDigits(s)
        ip   == SubSeq(s, 1, n)
        rest == DropFirst(s, n)
        fp   == IF rest # <<>> /\ Head(rest) = "." THEN Tail(rest) ELSE <<>>
    IN  IF rest # <<>> /\ Head(rest) = "." /\ AllIn(fp, Digits) /\ Len(ip) + Len(fp) > 0
        THEN [ok |-> TRUE, val |-> Number(ip, fp)]
        ELSE [ok |-> FALSE, val |-> One]

\* float() taking a lone dot for zero
PyFloatLenient(s) ==
    LET n    == LeadDigits(s)
        ip   == SubSeq(s, 1, n)
        rest == DropFirst(s, n)
        fp   == IF rest # <<>> /\ Head(rest) = "." THEN Tail(rest) ELSE <<>>
    IN  IF (rest = <<>> \/ Head(rest) = ".") /\ AllIn(fp, Digits)
        THEN [ok |-> TRUE, val |-> Number(ip, fp)]
        ELSE [ok |-> FALSE, val |-> One]

\* float(s): [ok |-> FALSE] stands for ValueError
PyFloat(s) ==
    LET n    == LeadDigits(s)
        ip   == SubSeq(s, 1, n)
        rest == DropFirst(s, n)
        fp   == IF rest # <<>> /\ Head(rest) = "." THEN Tail(rest) ELSE <<>>
        wellFormed == /\ rest = <<>> \/ Head(rest) = "."
                      /\ AllIn(fp, Digits)
                      /\ Len(ip) + Len(fp) > 0
    IN  IF wellFormed THEN [ok |-> TRUE, val |-> Number(ip, fp)]
                      ELSE [ok |-> FALSE, val |-> One]

-----------------------------------------------------------------------------
(* The two regular expressions *)

\* the pattern without its anchor: whatever follows the code is let through
AttachedAmountUnanchored(s) == TRUE

\* the whole of s matches \d*\.?\d*
AttachedAmountMatch(s) ==
    LET rest == DropFirst(s, LeadDigits(s))
        tail == IF rest # <<>> /\ Head(rest) = "." THEN Tail(rest) ELSE rest
    IN  AllIn(tail, Digits)

\* a code of at most three letters
CodeLengthsShort == {2, 3}

\* the lengths {2,4} of the pattern lets the code have
CodeLengths == {2, 3, 4}

\* re.match(r'^([A-Z]{2,4})(\d*\.?\d*)?$', first_arg, re.IGNORECASE)
CurrencyAmountMatch(first_arg) ==
    LET fits(k) == /\ k <= Len(first_arg)
                   /\ AllIn(SubSeq(first_arg, 1, k), LowerLetters \cup UpperLetters)
                   /\ AttachedAmountMatch(DropFirst(first_arg, k))
        ks == {k \in CodeLengths : fits(k)}
    IN  IF ks = {}
        THEN [matched |-> FALSE, group1 |-> <<>>, group2 |-> <<>>]
        ELSE LET k == CHOOSE x \in ks : \A y \in ks : y <= x
             IN  [matched |-> TRUE,
                  group1 |-> SubSeq(first_arg, 1, k),
                  group2 |-> DropFirst(first_arg, k)]

\* re.match(r'^\d+(\.\d+)?$', second_arg)
PlainNumberMatch(second_arg) ==
    LET n    == LeadDigits(second_arg)
        rest == DropFirst(second_arg, n)
    IN  /\ n >= 1
        /\ \/ rest = <<>>
           \/ /\ Len(rest) >= 2
              /\ Head(rest) = "."
              /\ AllIn(Tail(rest), Digits)

-----------------------------------------------------------------------------
(* The parsing part of the handler *)

NoIntent == [intent |-> FALSE, base |-> None, amount |-> One, target |-> None]

\* the branch with the attached amount kept when an explicit one follows
SecondArgKeepsAttached(parts, amount0) ==
    IF Len(parts) > 1
    THEN IF PlainNumberMatch(parts[2])
         THEN [amount |-> IF amount0 = One THEN PyFloat(parts[2]).val ELSE amount0,
               target |-> IF Len(parts) > 2 THEN Upper(parts[3]) ELSE None]
         ELSE [amount |-> amount0, target |-> Upper(parts[2])]
    ELSE [amount |-> amount0, target |-> None]

\* the branch with the last word, not the next one, taken as the target
SecondArgLastWord(parts, amount0) ==
    IF Len(parts) > 1
    THEN IF PlainNumberMatch(parts[2])
         THEN [amount |-> PyFloat(parts[2]).val,
               target |-> IF Len(parts) > 2 THEN Upper(parts[Len(parts)]) ELSE None]
         ELSE [amount |-> amount0, target |-> Upper(parts[Len(parts)])]
    ELSE [amount |-> amount0, target |-> None]

\* the branch on the second and third word; amount0 is the amount so far
SecondArg(parts, amount0) ==
    IF Len(parts) > 1
    THEN IF PlainNumberMatch(parts[2])
         THEN IF PyFloat(parts[2]).ok
              THEN [amount |-> PyFloat(parts[2]).val,
                    target |-> IF Len(parts) > 2 THEN Upper(parts[3]) ELSE None]
              ELSE [amount |-> amount0, target |-> None]
         ELSE [amount |-> amount0, target |-> Upper(parts[2])]
    ELSE [amount |-> amount0, target |-> None]

\* the attached amount not read
AttachedAmountIgnored(attached_amount_str) == One

\* the amount attached to the code in the first word
AttachedAmount(attached_amount_str) ==
    IF attached_amount_str # <<>>
    THEN IF PyFloat(attached_amount_str).ok THEN PyFloat(attached_amount_str).val ELSE One
    ELSE One

\* what the first word makes of a word the first pattern rejects
Unmatched(v, parts) ==
    IF v = "combined"
    THEN NoIntent
    ELSE LET r == SecondArg(parts, One)
         IN  [intent |-> TRUE, base |-> Upper(parts[1]), amount |-> r.amount, target |-> r.target]

ParseCommand(v, parts) ==
    LET m == CurrencyAmountMatch(parts[1])
    IN  IF m.matched
        THEN LET r == SecondArg(parts, AttachedAmount(m.group2))
             IN  [intent |-> TRUE, base |-> Upper(m.group1),
                  amount |-> r.amount, target |-> r.target]
        ELSE Unmatched(v, parts)

\* the words with the prefix left on
FullCommandPartsKeepsPrefix(c) == Split(Strip(c))

FullCommandParts(c) == Split(Strip(DropFirst(c, Len(COMMAND_PREFIX))))

-----------------------------------------------------------------------------
(* Generated messages *)

Strs(S, n) == UNION {[1..k -> S] : k \in 0..n}

Blanks(n) == [i \in 1..n |-> " "]

LetterPattern == <<"u", "S", "d", "T", "z", "E">>

\* a run of k letters of mixed case
CodeOf(k) == [i \in 1..k |-> LetterPattern[((i - 1) % Len(LetterPattern)) + 1]]

Suffixes == Strs({"0", "1", "."}, MaxSuffix)

Garbage == {<<>>, <<"x">>, <<"-">>}

\* letters, then digits and dots, then possibly one stray character
RichFirst == {CodeOf(k) \o s \o g : k \in 0..MaxCode, s \in Suffixes, g \in Garbage}

PoorFirst ==
    {CodeOf(2), CodeOf(3), CodeOf(4), CodeOf(5),
     CodeOf(3) \o <<"1", "0">>, CodeOf(2) \o <<"0", ".", "1">>, CodeOf(4) \o <<"0">>,
     CodeOf(3) \o <<"1", ".", "0", ".", "1">>, <<"1", "0">>}

SecondWords == Strs({"0", "1", ".", "m"}, MaxArg) \ {<<>>}

ThirdWords == {<<"e", "U", "r">>, <<"1", "0">>}

RichRest ==
    {<<w2>> : w2 \in SecondWords}
      \cup {<<w2, w3>> : w2 \in SecondWords, w3 \in ThirdWords}
      \cup {<<w2, w3, <<"x">>>> : w2 \in SecondWords, w3 \in ThirdWords}

RECURSIVE JoinWords(_, _)
JoinWords(words, gap) ==
    IF words = <<>> THEN <<>>
    ELSE IF Len(words) = 1 THEN words[1]
    ELSE words[1] \o Blanks(gap) \o JoinWords(Tail(words), gap)

PaddedWords ==
    {<<>>, <<CodeOf(3)>>, <<CodeOf(3), <<"m", "y", "r">>>>,
     <<CodeOf(3) \o <<"7">>, <<"1", "0">>, <<"m", "y", "r">>>>}

Contents ==
    {COMMAND_PREFIX \o f : f \in RichFirst \ {<<>>}}
      \cup
    {COMMAND_PREFIX \o f \o <<" ">> \o JoinWords(r, 1) : f \in PoorFirst, r \in RichRest}
      \cup
    {COMMAND_PREFIX \o Blanks(lead) \o JoinWords(ws, gap) \o Blanks(trail) :
        ws \in PaddedWords, lead \in 0..MaxPad, gap \in 1..MaxPad, trail \in 0..MaxPad}

Variants == {"combined", "currency"}

-----------------------------------------------------------------------------
(* The rest of the bot at rest *)

\* a message of somebody else, in a server channel, without a mention
PlainMessage == [own |-> FALSE, dm |-> FALSE, mentioned |-> FALSE]

\* the mentions of the bot, in the order of their arrival
Mentions == 1..MaxMentions

\* time.time() when the bot starts, in tenths of a second: far from 0
Epoch == 100

\* the handler of no mention has started, the global is as assigned at import
GeminiAtRest ==
    /\ now = Epoch
    /\ last_gemini_call_time = 0
    /\ mention_pc = [m \in Mentions |-> "pending"]
    /\ gemini_calls = <<>>
    /\ ai_response_len = [m \in Mentions |-> 0]
    /\ replies = [m \in Mentions |-> <<>>]

Users == 1..NumUsers

\* no run of the daily task, no command under way, nothing sent yet
DailyAtRest ==
    /\ daily_pc = "idle"
    /\ daily_users = <<>>
    /\ daily_i = 0
    /\ command_pc = [u \in Users |-> "idle"]
    /\ events = <<>>

\* no song
NoSong == [owner |-> 0, pos |-> 0]

\* no !d yet
NoDownload == [user |-> 0, result |-> "none", number |-> 0, size |-> 0, song |-> NoSong]

\* search_results_cache = {} and no command under way
MusicAtRest ==
    /\ cache_users = {}
    /\ search_results_cache = [u \in Users |-> <<>>]
    /\ music_pc = [u \in Users |-> "idle"]
    /\ download = NoDownload

\* users.get(user_id) of a user without a record: Python's None
NoRecord == [kind |-> "none", sign |-> "", timezone_offset |-> ""]

\* no handler has answered yet
NoNotice == [user |-> 0, kind |-> "none", sign |-> "", timezone_offset |-> ""]

\* no menu is open, no handler has run
StoreAtRest ==
    /\ views = {}
    /\ loaded = user_records
    /\ notice = NoNotice

-----------------------------------------------------------------------------
(* The handler up to the rate lookup *)

\* no call of fetch_exchange_rates is pending
NoCall == [base |-> None, target |-> None]

\* fetch_exchange_rates has returned nothing (yet): Python's None
NoData == [ok |-> FALSE, rates |-> <<>>, header |-> 0, found |-> FALSE]

StatusMessage(base, amt) == [op |-> "send", what |-> "status", base |-> base, amount |-> amt]

\* the message reached the dynamic-command branch: not the bot's own, no
\* registered command, and it starts with the prefix
Start ==
    /\ variant \in Variants
    /\ pc = "start"
    /\ base_currency = None
    /\ amount = One
    /\ target_currency = None
    /\ sent = <<>>
    /\ fetch_call = NoCall
    /\ rates_data = NoData
    /\ rate_lines = <<>>
    /\ next_line = 0
    /\ current_chunk = <<>>
    /\ message = PlainMessage
    /\ invoked = <<"handle_currency_command">>
    /\ GeminiAtRest
    /\ user_data = <<>>
    /\ DailyAtRest
    /\ MusicAtRest
    /\ user_records = [u \in Users |-> NoRecord]
    /\ StoreAtRest

Init == content \in Contents /\ Start

\* from the entry of the handler to its first await (or its return)
HandleCurrencyCommand ==
    /\ pc = "start"
    /\ LET full_command_parts == FullCommandParts(content)
       IN  IF full_command_parts = <<>>
           THEN /\ pc' = "returned"
                /\ UNCHANGED <<base_currency, amount, target_currency, sent>>
           ELSE LET p == ParseCommand(variant, full_command_parts)
                IN  IF p.intent
                    THEN /\ base_currency' = p.base
                         /\ amount' = p.amount
                         /\ target_currency' = p.target
                         /\ sent' = Append(sent, StatusMessage(p.base, p.amount))
                         /\ pc' = "send_status"
                    ELSE /\ pc' = "returned"
                         /\ UNCHANGED <<base_currency, amount, target_currency, sent>>
    /\ UNCHANGED <<variant, content, fetch_call, chunk_vars, world_vars>>

\* the status message is out; the handler calls fetch_exchange_rates
StatusSent ==
    /\ pc = "send_status"
    /\ fetch_call' = [base |-> base_currency, target |-> target_currency]
    /\ pc' = "fetching"
    /\ UNCHANGED <<world_vars, parse_vars, sent, chunk_vars>>

Next == HandleCurrencyCommand \/ StatusSent

Spec == Init /\ [][Next]_vars

-----------------------------------------------------------------------------
(* The handler after the rate lookup.                                      *)
(* A text is a sequence of pieces: a rendered line is one piece that       *)
(* carries the position of its rate in the table and its length, "\n" and  *)
(* the code fence are pieces of length 1 and 3.  Lengths are what the loop *)
(* reads; the pieces keep the lines apart so that a text can be split at   *)
(* its newlines again.                                                      *)

Piece(t, id, len) == [t |-> t, id |-> id, len |-> len]

NL == Piece("nl", 0, 1)

\* the three backquotes that open and close a code block
Fence == Piece("fence", 0, 3)

RECURSIVE TextLen(_)
\* len(text)
TextLen(text) == IF text = <<>> THEN 0 ELSE Head(text).len + TextLen(Tail(text))

\* the limit the loop compares with
ChunkLimit == 1900

\* lengths of rendered lines: short ones, ones that fill a chunk to the
\* limit together with a short one, and ones at and over the limit
LineLens == {12, 1850, 1887, 1888, 1900, 1901}

\* lengths of the header line f"**Exchange Rates for {amount:.2f} {base} (as of {date}):**\n"
HeaderLens == {50, 62}

RateTables(n) == UNION {[1..k -> LineLens] : k \in 0..n}

\* what fetch_exchange_rates can return for the call: None on a request
\* error, else the table; asked for one target, the service answers with at
\* most that one rate
RatesResults(call) ==
    {NoData} \cup
    {[ok |-> TRUE, rates |-> r, header |-> h, found |-> f] :
        r \in RateTables(IF call.target = None THEN MaxLines ELSE 1),
        h \in HeaderLens,
        f \in IF call.target = None THEN {FALSE} ELSE BOOLEAN}

\* f"  - {currency}: {(rate_val * amount):.4f}" for each rate, in the order of the table
RateLines(rates) == [i \in 1..Len(rates) |-> Piece("line", i, rates[i])]

RECURSIVE JoinLines(_)
\* "\n".join(lines)
JoinLines(lines) ==
    IF lines = <<>> THEN <<>>
    ELSE IF Len(lines) = 1 THEN <<lines[1]>>
    ELSE <<lines[1], NL>> \o JoinLines(Tail(lines))

\* f"```\n{text}\n```"
CodeBlock(text) == <<Fence, NL>> \o text \o <<NL, Fence>>

HeaderText(h) == <<Piece("header", 0, h)>>

Edit(what, text) == [op |-> "edit", what |-> what, text |-> text]

Send(what, text) == [op |-> "send", what |-> what, text |-> text]

\* the condition without the separator counted
ChunkIsFullNoSeparator(chunk, line) == TextLen(chunk) + line.len > ChunkLimit

\* the condition with the length of the line left out
ChunkIsFullIgnoresLine(chunk, line) == TextLen(chunk) + 1 > ChunkLimit

\* the condition with >= for >
ChunkIsFullAtLimit(chunk, line) == TextLen(chunk) + line.len + 1 >= ChunkLimit

\* the condition under which the loop sends the accumulator and starts anew
ChunkIsFull(chunk, line) == TextLen(chunk) + line.len + 1 > ChunkLimit

\* the accumulator after a line that fits
ChunkAppend(chunk, line) == chunk \o <<NL, line>>

\* the list never taken for long
ListIsLongNever(lines, h) == FALSE

\* currency.py only: the list goes out in several messages
ListIsLong(lines, h) == TextLen(JoinLines(lines)) + h > ChunkLimit

FetchReturns ==
    /\ pc = "fetching"
    /\ \E d \in RatesResults(fetch_call) : rates_data' = d
    /\ fetch_call' = NoCall
    /\ pc' = "display"
    /\ UNCHANGED <<world_vars, parse_vars, sent, rate_lines, next_line, current_chunk>>

StartChunks(h) ==
    /\ sent' = Append(sent, Edit("header", HeaderText(h)))
    /\ rate_lines' = RateLines(rates_data.rates)
    /\ current_chunk' = <<>>
    /\ next_line' = 1
    /\ pc' = "chunking"

Finish(reply) ==
    /\ sent' = Append(sent, reply)
    /\ pc' = "done"
    /\ UNCHANGED <<rate_lines, next_line, current_chunk>>

\* combinedversion.py, version5.py: from the return of the lookup to the loop
DisplayCombined ==
    /\ pc = "display"
    /\ variant = "combined"
    /\ IF ~rates_data.ok \/ rates_data.rates = <<>>
       THEN Finish(Edit("sorry", <<>>))
       ELSE IF target_currency # None
            THEN IF rates_data.found
                 THEN Finish(Edit("rate", HeaderText(rates_data.header)))
                 ELSE Finish(Edit("no_rate", <<>>))
            ELSE StartChunks(rates_data.header)
    /\ UNCHANGED <<world_vars, parse_vars, fetch_call, rates_data>>

\* currency.py: from the return of the lookup to the loop, or to the single message
DisplayCurrency ==
    /\ pc = "display"
    /\ variant = "currency"
    /\ IF ~rates_data.ok
       THEN Finish(Edit("sorry", <<>>))
       ELSE IF rates_data.rates = <<>>
            THEN Finish(Edit("no_rates", <<>>))
            ELSE IF target_currency # None
                 THEN Finish(Edit(IF rates_data.found THEN "rate" ELSE "no_rate",
                                  HeaderText(rates_data.header)))
                 ELSE IF ListIsLong(RateLines(rates_data.rates), rates_data.header)
                      THEN StartChunks(rates_data.header)
                      ELSE /\ sent' = Append(sent,
                                  Edit("list", HeaderText(rates_data.header)
                                         \o CodeBlock(JoinLines(RateLines(rates_data.rates)))))
                           /\ rate_lines' = RateLines(rates_data.rates)
                           /\ pc' = "done"
                           /\ UNCHANGED <<next_line, current_chunk>>
    /\ UNCHANGED <<world_vars, parse_vars, fetch_call, rates_data>>

\* one turn of the loop over rate_lines
ChunkLine ==
    /\ pc = "chunking"
    /\ next_line <= Len(rate_lines)
    /\ LET line == rate_lines[next_line]
       IN  IF ChunkIsFull(current_chunk, line)
           THEN /\ sent' = Append(sent, Send("chunk", CodeBlock(current_chunk)))
                /\ current_chunk' = <<line>>
           ELSE /\ current_chunk' = ChunkAppend(current_chunk, line)
                /\ UNCHANGED sent
    /\ next_line' = next_line + 1
    /\ UNCHANGED <<world_vars, parse_vars, pc, fetch_call, rates_data, rate_lines>>

\* after the loop: what is left in the accumulator goes out
ChunkRest ==
    /\ pc = "chunking"
    /\ next_line > Len(rate_lines)
    /\ sent' = IF current_chunk # <<>>
               THEN Append(sent, Send("chunk", CodeBlock(current_chunk)))
               ELSE sent
    /\ pc' = "done"
    /\ UNCHANGED <<world_vars, parse_vars, fetch_call, chunk_vars>>

\* commands for the display of rates: a code alone, a code with a target,
\* a code with an amount, and a word the pattern rejects
RatesContents ==
    {COMMAND_PREFIX \o CodeOf(3),
     COMMAND_PREFIX \o CodeOf(3) \o <<" ", "m", "y", "r">>,
     COMMAND_PREFIX \o CodeOf(3) \o <<"1", "0">>,
     COMMAND_PREFIX \o <<"1", "0">>}

InitRates == content \in RatesContents /\ Start

NextRates ==
    \/ HandleCurrencyCommand
    \/ StatusSent
    \/ FetchReturns
    \/ DisplayCombined
    \/ DisplayCurrency
    \/ ChunkLine
    \/ ChunkRest

SpecRates == InitRates /\ [][NextRates]_vars

-----------------------------------------------------------------------------
(* Vocabulary of the properties, stated on the text of the command *)

Words == FullCommandParts(content)

Parsed == pc # "start"

IntentProduced == pc \notin {"start", "returned"}

Letters == LowerLetters \cup UpperLetters

LowerChar(c) ==
    CASE c = "U" -> "u" [] c = "S" -> "s" [] c = "D" -> "d" [] c = "T" -> "t"
      [] c = "Z" -> "z" [] c = "M" -> "m" [] c = "Y" -> "y" [] c = "R" -> "r"
      [] c = "E" -> "e" [] c = "X" -> "x" [] c = "H" -> "h" [] c = "L" -> "l"
      [] c = "P" -> "p" [] OTHER -> c

\* b is w with every letter in upper case
IsUpperOf(b, w) ==
    /\ Len(b) = Len(w)
    /\ \A i \in 1..Len(w) : b[i] \notin LowerLetters /\ LowerChar(b[i]) = LowerChar(w[i])

\* a currency code: 2 to 4 letters
IsCode(w) == Len(w) \in 2..4 /\ AllIn(w, Letters)

DotCount(w) == Cardinality({i \in 1..Len(w) : w[i] = "."})

DotAt(w) == IF DotCount(w) = 0 THEN Len(w) + 1 ELSE CHOOSE i \in 1..Len(w) : w[i] = "."

\* a decimal: digits with at most one dot and at least one digit
IsDecimal(w) ==
    /\ AllIn(w, Digits \cup {"."})
    /\ DotCount(w) <= 1
    /\ Len(w) > DotCount(w)

\* a plain decimal: digits, or digits a dot and digits
IsPlainDecimal(w) == IsDecimal(w) /\ w[1] # "." /\ w[Len(w)] # "."

DecimalValue(w) ==
    [int |-> IntVal(SubSeq(w, 1, DotAt(w) - 1)),
     frac |-> StripZeros(SubSeq(w, DotAt(w) + 1, Len(w)))]

\* the positions at which w splits into a code and what is attached to it
CodeSplits(w) == {k \in 2..4 : k <= Len(w) /\ IsCode(SubSeq(w, 1, k))}

\* the shape the first pattern accepts: a code, then digits with at most one dot
IsFirstPattern(w) ==
    \E k \in CodeSplits(w) :
        AllIn(DropFirst(w, k), Digits \cup {"."}) /\ DotCount(w) <= 1

-----------------------------------------------------------------------------
(* C1..C7: the parser *)

\* C1: a command of one word, a 2-4 letter code C immediately followed by a
\* positive decimal A, gives baseCurrency = upper(C), amount = A and no
\* target currency.
C1_CodeWithAttachedAmount ==
    (Parsed /\ Len(Words) = 1) =>
        \A k \in CodeSplits(Words[1]) :
            LET C == SubSeq(Words[1], 1, k)
                A == DropFirst(Words[1], k)
            IN  (IsDecimal(A) /\ IsPositive(DecimalValue(A))) =>
                    /\ IntentProduced
                    /\ IsUpperOf(base_currency, C)
                    /\ amount = DecimalValue(A)
                    /\ target_currency = None

C1_Witness ==
    /\ pc = "fetching"
    /\ Len(Words) = 1
    /\ \E k \in CodeSplits(Words[1]) :
          /\ IsDecimal(DropFirst(Words[1], k))
          /\ k = 4
          /\ amount.int > 1 /\ amount.frac # <<>>

\* C2: in a command of three words 'C A T' whose second word A is a plain
\* decimal, amount = A whatever amount is attached to the first word, and the
\* target currency is the third word in upper case, whatever its shape.
C2_ExplicitAmountOverrides ==
    (Parsed /\ Len(Words) = 3 /\ IsFirstPattern(Words[1]) /\ IsPlainDecimal(Words[2])) =>
        /\ IntentProduced
        /\ amount = DecimalValue(Words[2])
        /\ IsUpperOf(target_currency, Words[3])

C2_Witness ==
    /\ pc = "fetching"
    /\ Len(Words) = 3
    /\ \E k \in CodeSplits(Words[1]) :
          /\ IsDecimal(DropFirst(Words[1], k))
          /\ DecimalValue(DropFirst(Words[1], k)) # DecimalValue(Words[2])
    /\ IsPlainDecimal(Words[2])
    /\ amount = DecimalValue(Words[2])
    /\ ~IsCode(Words[3])

\* C3: a command of two words 'C T', C a 2-4 letter code and T not a number,
\* gives baseCurrency = upper(C), amount = 1.0 and targetCurrency = upper(T).
C3_CodeAndTarget ==
    (Parsed /\ Len(Words) = 2 /\ IsCode(Words[1]) /\ ~IsPlainDecimal(Words[2])) =>
        /\ IntentProduced
        /\ IsUpperOf(base_currency, Words[1])
        /\ amount = One
        /\ IsUpperOf(target_currency, Words[2])

C3_Witness ==
    /\ pc = "fetching"
    /\ Len(Words) = 2
    /\ IsCode(Words[1])
    /\ AllIn(Words[2], Letters)
    /\ base_currency # Words[1]
    /\ target_currency # Words[2]

\* C4: a command whose first word is not 'letters then optional number' (as
\* '123' or '123abc') is not recognized: no intent, no status message, no
\* rate lookup.
C4_UnmatchedIsNotRecognized ==
    (Parsed /\ Words # <<>> /\ ~IsFirstPattern(Words[1])) =>
        /\ ~IntentProduced
        /\ sent = <<>>
        /\ fetch_call = NoCall

\* C5: every intent has amount > 0; a zero amount ('usd0', 'usd 0') does not
\* become the amount, which stays 1.0.
C5_AmountPositive == IntentProduced => IsPositive(amount)

\* C6 as stated: a three-letter code followed by a stray letter, as 'usdx',
\* gives baseCurrency = the code without the stray letter ('USD'), and
\* amount 1.0.
C6_StrayCharacterDropped ==
    (/\ Parsed
     /\ Len(Words) = 1
     /\ Len(Words[1]) = 4
     /\ IsCode(SubSeq(Words[1], 1, 3))
     /\ Words[1][4] = "x") =>
        /\ IntentProduced
        /\ IsUpperOf(base_currency, SubSeq(Words[1], 1, 3))
        /\ amount = One

\* a code and one more character that is no digit and no dot, and that does
\* not make a code with it
IsCodeWithStray(w) ==
    /\ ~IsCode(w)
    /\ \E k \in CodeSplits(w) : Len(w) = k + 1 /\ w[k + 1] \notin Digits \cup {"."}

\* C6 amended: a first word of 2 to 4 letters, such as 'usdx', is the code as
\* a whole (baseCurrency = 'USDX'); alone it gives amount 1.0 and no target.
\* A code followed by a stray character that cannot belong to the code (no
\* letter, or a fifth letter) does not match the pattern: combinedversion.py
\* and version5.py produce no intent, currency.py takes the whole word in
\* upper case as the base currency.
C6_LettersAreTheCode ==
    (Parsed /\ Words # <<>>) =>
        /\ IsCode(Words[1]) =>
              /\ IntentProduced
              /\ IsUpperOf(base_currency, Words[1])
              /\ Len(Words) = 1 => (amount = One /\ target_currency = None)
        /\ IsCodeWithStray(Words[1]) =>
              /\ variant = "combined" => ~IntentProduced
              /\ variant = "currency" =>
                    (IntentProduced /\ IsUpperOf(base_currency, Words[1]))

C6_Witness ==
    /\ pc = "fetching"
    /\ Len(Words) = 1
    /\ Len(Words[1]) = 4
    /\ IsCode(Words[1])
    /\ Words[1][4] = "x"
    /\ Len(base_currency) = 4

\* a code followed by digits and dots with two dots or more
IsCodeWithTwoDots(w) ==
    \E k \in CodeSplits(w) :
        /\ AllIn(DropFirst(w, k), Digits \cup {"."})
        /\ DotCount(w) >= 2

\* C7 as stated: of a first word such as 'usd1.2.3' the leading '1.2' is the
\* amount, the rest is dropped, and the intent has baseCurrency = 'USD'.
C7_SecondDotDropped ==
    (Parsed /\ Len(Words) = 1 /\ IsCodeWithTwoDots(Words[1])) =>
        \A k \in CodeSplits(Words[1]) :
            AllIn(DropFirst(Words[1], k), Digits \cup {"."}) =>
                /\ IntentProduced
                /\ IsUpperOf(base_currency, SubSeq(Words[1], 1, k))

\* C7 amended: a first word such as 'usd1.2.3' does not match the pattern,
\* which is anchored at its end: nothing is captured and nothing dropped.
\* combinedversion.py and version5.py produce no intent and send nothing;
\* currency.py takes the whole word in upper case as the base currency, with
\* amount 1.0 when the word stands alone.
C7_TwoDotsDoNotMatch ==
    (Parsed /\ Words # <<>> /\ IsCodeWithTwoDots(Words[1])) =>
        /\ variant = "combined" => (~IntentProduced /\ sent = <<>> /\ fetch_call = NoCall)
        /\ variant = "currency" =>
              /\ IntentProduced
              /\ IsUpperOf(base_currency, Words[1])
              /\ Len(Words) = 1 => amount = One

C7_Witness ==
    /\ Parsed
    /\ variant = "combined"
    /\ Len(Words) = 1
    /\ \E k \in CodeSplits(Words[1]) :
          LET s == DropFirst(Words[1], k)
          IN  /\ Len(s) = 5
              /\ s[2] = "." /\ s[4] = "."
              /\ AllIn(<<s[1], s[3], s[5]>>, Digits)
    /\ pc = "returned"

-----------------------------------------------------------------------------
(* C8..C10: the chunks of a rate list *)

IsChunk(m) == m.what = "chunk"

\* the accumulators the loop has sent so far, code fence taken off
Chunks ==
    LET ms == SelectSeq(sent, IsChunk)
    IN  [i \in 1..Len(ms) |-> SubSeq(ms[i].text, 3, Len(ms[i].text) - 2)]

IsLine(p) == p.t = "line"

\* the lines a text holds
LinesOf(text) == SelectSeq(text, IsLine)

RECURSIVE JoinTexts(_)
\* the texts joined with "\n"
JoinTexts(texts) ==
    IF texts = <<>> THEN <<>>
    ELSE IF Len(texts) = 1 THEN texts[1]
    ELSE texts[1] \o <<NL>> \o JoinTexts(Tail(texts))

RECURSIVE SplitLines(_, _, _)
SplitLines(text, part, acc) ==
    IF text = <<>> THEN Append(acc, part)
    ELSE IF Head(text) = NL
         THEN SplitLines(Tail(text), <<>>, Append(acc, part))
         ELSE SplitLines(Tail(text), Append(part, Head(text)), acc)

\* text.split("\n")
SplitAtNewlines(text) == SplitLines(text, <<>>, <<>>)

\* C8: every chunk sent is at most ChunkLimit long, its newlines counted,
\* unless it is one single line that alone is longer than the limit.
C8_ChunkWithinLimit ==
    \A i \in 1..Len(Chunks) :
        \/ TextLen(Chunks[i]) <= ChunkLimit
        \/ /\ Len(Chunks[i]) = 1
           /\ IsLine(Chunks[i][1])
           /\ Chunks[i][1].len > ChunkLimit

C8_Witness ==
    /\ pc = "done"
    /\ \E i \in 1..Len(Chunks) :
          TextLen(Chunks[i]) = ChunkLimit /\ Len(LinesOf(Chunks[i])) >= 2
    /\ \E i \in 1..Len(Chunks) :
          TextLen(Chunks[i]) > ChunkLimit /\ Len(Chunks[i]) = 1

\* C9: the chunks joined with "\n" and split at "\n" are the input lines, in
\* order: none lost, doubled, moved or cut, and no empty line added.
C9_ChunksRoundTrip ==
    (pc = "done" /\ Chunks # <<>>) =>
        SplitAtNewlines(JoinTexts(Chunks)) = [i \in 1..Len(rate_lines) |-> <<rate_lines[i]>>]

\* C10: a line is put into an empty accumulator without a separator, so that
\* every chunk is the "\n"-join of its lines: none starts or ends with "\n".
C10_ChunkIsJoinOfLines ==
    \A i \in 1..Len(Chunks) : Chunks[i] = JoinLines(LinesOf(Chunks[i]))

-----------------------------------------------------------------------------
(* C11, C20: more on the chunks *)

\* the loop over the rate lines has run to its end
ChunkingDone == pc = "done" /\ next_line > 0

IsOversized(line) == line.len > ChunkLimit

\* the chunks that hold the line
ChunksWith(line) == {j \in 1..Len(Chunks) : \E k \in 1..Len(Chunks[j]) : Chunks[j][k] = line}

\* C11: a line longer than the limit goes out whole as a chunk of its own
\* that holds nothing else, wherever the line stands: it is never cut and
\* never shares a chunk with a neighbour.
C11_OversizedLineAlone ==
    /\ \A j \in 1..Len(Chunks) : \A k \in 1..Len(Chunks[j]) :
          IsOversized(Chunks[j][k]) => Chunks[j] = <<Chunks[j][k]>>
    /\ ChunkingDone =>
          \A i \in 1..Len(rate_lines) :
              IsOversized(rate_lines[i]) => Cardinality(ChunksWith(rate_lines[i])) = 1

C11_Witness ==
    /\ ChunkingDone
    /\ Len(rate_lines) >= 3
    /\ IsOversized(rate_lines[1])
    /\ IsOversized(rate_lines[2])
    /\ IsOversized(rate_lines[Len(rate_lines)])
    /\ ~IsOversized(rate_lines[3])

\* C20: a chunk is closed only when the next line does not fit: for two
\* chunks in a row, the earlier one, a separator and the first line of the
\* later one are together longer than the limit.
C20_ChunkClosedOnlyWhenFull ==
    \A j \in 1..(Len(Chunks) - 1) :
        TextLen(Chunks[j]) + 1 + LinesOf(Chunks[j + 1])[1].len > ChunkLimit

C20_Witness ==
    /\ ChunkingDone
    /\ Len(Chunks) >= 3
    /\ \E j \in 1..(Len(Chunks) - 1) : Len(LinesOf(Chunks[j])) >= 2
    /\ \E j \in 1..(Len(Chunks) - 1) :
          TextLen(Chunks[j]) + 1 + LinesOf(Chunks[j + 1])[1].len = ChunkLimit + 1

-----------------------------------------------------------------------------
(* C13, C14, C16, C17: more on the parser *)

\* what follows the prefix
CommandText == DropFirst(content, Len(COMMAND_PREFIX))

\* C13: a command that is empty or all blanks after the prefix is not
\* recognized: no words are left, no intent is made and nothing is sent.
C13_EmptyCommandIgnored ==
    (Parsed /\ AllIn(CommandText, Whitespace)) =>
        /\ pc = "returned"
        /\ base_currency = None
        /\ sent = <<>>
        /\ fetch_call = NoCall

C13_Witness ==
    /\ pc = "returned"
    /\ Len(CommandText) >= 2
    /\ AllIn(CommandText, Whitespace)

\* a code followed by a lone dot
IsCodeWithDot(w) == \E k \in CodeSplits(w) : DropFirst(w, k) = <<".">>

\* C14: a suffix that is there but is no number (the lone dot of 'usd.') counts
\* as absent: the intent has the code as base currency and, the word standing
\* alone, amount 1.0 and no target; no error ends the handler.
C14_LoneDotIsNoAmount ==
    (Parsed /\ Words # <<>> /\ IsCodeWithDot(Words[1])) =>
        /\ IntentProduced
        /\ IsUpperOf(base_currency, SubSeq(Words[1], 1, Len(Words[1]) - 1))
        /\ Len(Words) = 1 => (amount = One /\ target_currency = None)

C14_Witness ==
    /\ pc = "fetching"
    /\ Len(Words) = 1
    /\ IsCodeWithDot(Words[1])
    /\ amount = One

\* C16: an intent always has a base currency of 2 to 4 upper-case letters,
\* and a target currency only if the command has a second word that is no
\* number, or a third word after a second word that is a number.
C16_IntentWellFormed ==
    IntentProduced =>
        /\ Len(base_currency) \in 2..4
        /\ AllIn(base_currency, UpperLetters)
        /\ target_currency # None =>
              \/ Len(Words) >= 2 /\ ~IsPlainDecimal(Words[2])
              \/ Len(Words) >= 3 /\ IsPlainDecimal(Words[2])

\* the words the parser reads: three if the second is a number, else two
WordsRead ==
    SubSeq(Words, 1,
           IF Len(Words) >= 2 /\ IsPlainDecimal(Words[2])
           THEN (IF Len(Words) < 3 THEN Len(Words) ELSE 3)
           ELSE (IF Len(Words) < 2 THEN Len(Words) ELSE 2))

\* C17: words after those read are ignored: the outcome is the one of the
\* command cut after its second word, or after its third if the second is a
\* number ('usd myr 100' gives what 'usd myr' gives).
C17_LaterWordsIgnored ==
    (Parsed /\ Words # <<>>) =>
        LET p == ParseCommand(variant, WordsRead)
        IN  /\ IntentProduced <=> p.intent
            /\ IntentProduced =>
                  /\ base_currency = p.base
                  /\ amount = p.amount
                  /\ target_currency = p.target

C17_Witness ==
    /\ pc = "fetching"
    /\ Len(Words) = 3
    /\ IsCode(Words[1])
    /\ AllIn(Words[2], Letters)
    /\ IsPlainDecimal(Words[3])
    /\ amount = One
    /\ IsUpperOf(target_currency, Words[2])

-----------------------------------------------------------------------------
(* C15: the parser is total *)

\* C15: the parser ends every command either with an intent or with none and
\* nothing changed, and no conversion fails where the code expects none: a
\* second word the plain-decimal pattern accepts always converts, so that it
\* is the amount and the third word, if any, is read as the target.
C15_ParserTotal ==
    Parsed =>
        /\ \/ IntentProduced /\ base_currency # None
           \/ pc = "returned" /\ base_currency = None /\ sent = <<>>
        /\ (IntentProduced /\ Len(Words) >= 2 /\ IsPlainDecimal(Words[2])) =>
              /\ amount = DecimalValue(Words[2])
              /\ Len(Words) >= 3 <=> target_currency # None

C15_Witness ==
    /\ pc = "fetching"
    /\ Len(Words) = 2
    /\ IsFirstPattern(Words[1])
    /\ IsPlainDecimal(Words[2])
    /\ DotCount(Words[2]) = 0
    /\ amount = DecimalValue(Words[2])
    /\ amount # One
    /\ target_currency = None

-----------------------------------------------------------------------------
(* on_message: the way of a message to its handler *)

\* the commands registered with @bot.command
RegisteredCommands == {<<"h", "e", "l", "p">>}

\* str.startswith
StartsWith(s, p) == Len(s) >= Len(p) /\ SubSeq(s, 1, Len(p)) = p

\* the word the command framework reads after the prefix: up to the next blank
RECURSIVE GetWord(_)
GetWord(s) ==
    IF s = <<>> \/ Head(s) \in Whitespace THEN <<>> ELSE <<Head(s)>> \o GetWord(Tail(s))

\* ctx.valid of bot.get_context(message): the prefix, then directly the name
\* of a registered command
CtxValid(c) ==
    /\ StartsWith(c, COMMAND_PREFIX)
    /\ GetWord(DropFirst(c, Len(COMMAND_PREFIX))) \in RegisteredCommands

\* str.lower()
Lower(s) == [i \in 1..Len(s) |-> LowerChar(s[i])]

\* the notice to a direct message that is not blank
DmNotice(c) == IF Strip(c) # <<>> THEN <<"dm_notice">> ELSE <<>>

\* gem.py and klexchangerate.py, which have no registered commands: the
\* handlers called for a message that is not the bot's own
RouteSmall(v, m, c) ==
    IF v = "gem"
    THEN IF m.dm
         THEN DmNotice(c)
         ELSE IF m.mentioned THEN <<"handle_gemini_mention">> ELSE <<>>
    ELSE IF Lower(c) = <<"!", "r", "m">> THEN <<"rm_reply">> ELSE <<>>

\* on_message going on after process_commands
RouteWithoutReturn(v, m, c) ==
    IF m.own
    THEN <<>>
    ELSE IF v \in {"gem", "klexchangerate"}
    THEN RouteSmall(v, m, c)
    ELSE IF v = "combined" /\ m.dm
         THEN DmNotice(c)
         ELSE IF v = "combined" /\ m.mentioned
              THEN <<"handle_gemini_mention">>
              ELSE (IF CtxValid(c) THEN <<"process_commands">> ELSE <<>>)
                     \o (IF StartsWith(c, COMMAND_PREFIX)
                         THEN <<"handle_currency_command">>
                         ELSE <<>>)

\* on_message looking for a registered command before it looks for a mention
RouteCommandsFirst(v, m, c) ==
    IF m.own
    THEN <<>>
    ELSE IF v \in {"gem", "klexchangerate"}
    THEN RouteSmall(v, m, c)
    ELSE IF v = "combined" /\ m.dm
         THEN DmNotice(c)
         ELSE IF CtxValid(c)
              THEN <<"process_commands">>
              ELSE IF v = "combined" /\ m.mentioned
                   THEN <<"handle_gemini_mention">>
                   ELSE IF StartsWith(c, COMMAND_PREFIX)
                        THEN <<"handle_currency_command">>
                        ELSE <<>>

\* on_message without the look at the author
RouteOwnToo(v, m, c) ==
    IF v \in {"gem", "klexchangerate"}
    THEN RouteSmall(v, m, c)
    ELSE IF v = "combined" /\ m.dm
         THEN DmNotice(c)
         ELSE IF v = "combined" /\ m.mentioned
              THEN <<"handle_gemini_mention">>
              ELSE IF CtxValid(c)
                   THEN <<"process_commands">>
                   ELSE IF StartsWith(c, COMMAND_PREFIX)
                        THEN <<"handle_currency_command">>
                        ELSE <<>>

\* the handlers on_message calls for a message, in order
Route(v, m, c) ==
    IF m.own
    THEN <<>>
    ELSE IF v \in {"gem", "klexchangerate"}
    THEN RouteSmall(v, m, c)
    ELSE IF v = "combined" /\ m.dm
         THEN DmNotice(c)
         ELSE IF v = "combined" /\ m.mentioned
              THEN <<"handle_gemini_mention">>
              ELSE IF CtxValid(c)
                   THEN <<"process_commands">>
                   ELSE IF StartsWith(c, COMMAND_PREFIX)
                        THEN <<"handle_currency_command">>
                        ELSE <<>>

OnMessage ==
    /\ pc = "on_message"
    /\ invoked' = Route(variant, message, content)
    /\ pc' = IF \E i \in 1..Len(invoked') : invoked'[i] = "handle_currency_command"
             THEN "start"
             ELSE "routed"
    /\ UNCHANGED <<parse_vars, sent, fetch_call, chunk_vars, message, gemini_vars, daily_vars, music_vars, store_vars>>

Messages == [own : BOOLEAN, dm : BOOLEAN, mentioned : BOOLEAN]

\* messages on the way: the registered command alone, with an argument, in
\* other case, after a blank and inside a longer word; currency commands;
\* texts without the prefix; nothing at all
RouteContents ==
    {COMMAND_PREFIX \o <<"h", "e", "l", "p">>,
     COMMAND_PREFIX \o <<"h", "e", "l", "p", " ", "m", "e">>,
     COMMAND_PREFIX \o <<"H", "E", "L", "P">>,
     COMMAND_PREFIX \o <<" ", "h", "e", "l", "p">>,
     COMMAND_PREFIX \o <<"h", "e", "l", "p", "x">>,
     COMMAND_PREFIX \o <<"h", "e", "l">>,
     COMMAND_PREFIX \o <<"u", "s", "d">>,
     COMMAND_PREFIX \o <<"u", "s", "d", "1", "0", " ", "e", "u", "r">>,
     COMMAND_PREFIX \o <<"1", "0">>,
     COMMAND_PREFIX \o <<"r", "m">>,
     COMMAND_PREFIX \o <<"R", "m">>,
     COMMAND_PREFIX,
     <<"h", "e", "l", "p">>,
     <<"u", "s", "d">>,
     <<" ", "!", "u", "s", "d">>,
     <<" ">>,
     <<>>}

\* the files with an on_message: the two of Variants, gem.py, klexchangerate.py
RouteVariants == Variants \cup {"gem", "klexchangerate"}

InitRoute ==
    /\ variant \in RouteVariants
    /\ content \in RouteContents
    /\ message \in Messages
    /\ pc = "on_message"
    /\ invoked = <<>>
    /\ base_currency = None
    /\ amount = One
    /\ target_currency = None
    /\ sent = <<>>
    /\ fetch_call = NoCall
    /\ rates_data = NoData
    /\ rate_lines = <<>>
    /\ next_line = 0
    /\ current_chunk = <<>>
    /\ GeminiAtRest
    /\ user_data = <<>>
    /\ DailyAtRest
    /\ MusicAtRest
    /\ user_records = [u \in Users |-> NoRecord]
    /\ StoreAtRest

NextRoute ==
    \/ OnMessage
    \/ HandleCurrencyCommand
    \/ StatusSent

SpecRoute == InitRoute /\ [][NextRoute]_vars

\* handle_currency_command was called for the message
CurrencyInvoked == \E i \in 1..Len(invoked) : invoked[i] = "handle_currency_command"

\* process_commands was called for the message
CommandsInvoked == \E i \in 1..Len(invoked) : invoked[i] = "process_commands"

\* the text is the prefix, then 'help', then nothing or a blank
IsHelpCommand(c) ==
    /\ Len(c) >= 5
    /\ SubSeq(c, 1, 5) = <<"!", "h", "e", "l", "p">>
    /\ Len(c) > 5 => c[6] = " "

\* C12: the currency parser is a fallback: it runs for a message only if the
\* message starts with the prefix and is no registered command; no message is
\* handed both to process_commands and to the parser, and a message that is a
\* registered command (!help) leaves no trace of the parser.
C12_ParserIsFallback ==
    /\ pc \notin {"on_message", "routed"} => CurrencyInvoked
    /\ CurrencyInvoked =>
          /\ content # <<>>
          /\ content[1] = "!"
          /\ ~IsHelpCommand(content)
          /\ ~CommandsInvoked
    /\ (IsHelpCommand(content) /\ pc # "on_message") =>
          /\ pc = "routed"
          /\ base_currency = None
          /\ sent = <<>>
          /\ fetch_call = NoCall

\* 'help' after a blank is no registered command and goes to the parser
C12_Witness ==
    /\ pc = "fetching"
    /\ invoked = <<"handle_currency_command">>
    /\ content = <<"!", " ", "h", "e", "l", "p">>
    /\ base_currency = <<"H", "E", "L", "P">>

-----------------------------------------------------------------------------
(* The mention handler and its rate limit; the Gemini model is loaded *)

\* 1.1 seconds, in tenths of a second
MIN_DELAY_BETWEEN_CALLS == 11

\* the clock goes on
Tick ==
    /\ now < Epoch + MaxClock
    /\ now' = now + 1
    /\ UNCHANGED <<last_gemini_call_time, mention_pc, gemini_calls, ai_response_len, replies>>
    /\ UNCHANGED <<parse_vars, pc, sent, fetch_call, chunk_vars, route_vars, daily_vars, music_vars, store_vars>>

\* a mention arrives: the handler runs up to its first await, which is the
\* reply to an empty prompt, the reply that asks to wait, or the entry of
\* 'async with message.channel.typing()'
MentionArrives(m) ==
    /\ mention_pc[m] = "pending"
    /\ \A k \in Mentions : k < m => mention_pc[k] # "pending"
    /\ \E user_message_empty \in BOOLEAN :
          mention_pc' = [mention_pc EXCEPT ![m] =
              IF user_message_empty
              THEN "greeted"
              ELSE IF now - last_gemini_call_time < MIN_DELAY_BETWEEN_CALLS
                   THEN "asked_to_wait"
                   ELSE "typing"]
    /\ UNCHANGED <<now, last_gemini_call_time, gemini_calls, ai_response_len, replies>>
    /\ UNCHANGED <<parse_vars, pc, sent, fetch_call, chunk_vars, route_vars, daily_vars, music_vars, store_vars>>

\* the typing indicator is on: model.generate_content_async is called
CallGemini(m) ==
    /\ mention_pc[m] = "typing"
    /\ gemini_calls' = Append(gemini_calls, now)
    /\ mention_pc' = [mention_pc EXCEPT ![m] = "awaiting"]
    /\ UNCHANGED <<now, last_gemini_call_time, ai_response_len, replies>>
    /\ UNCHANGED <<parse_vars, pc, sent, fetch_call, chunk_vars, route_vars, daily_vars, music_vars, store_vars>>

\* the longest text that goes out as one reply
ReplyLimit == 2000

\* the length of a slice of a longer text
SliceLen == 1990

\* lengths of responses: at and just over the length of a slice and the
\* limit of a reply, and at and just over two slices
ResponseLens == {700, 1990, 2000, 2001, 3980, 3981}

Min(a, b) == IF a < b THEN a ELSE b

\* slices that begin where the limit of a reply would end
SlicesSkipping(len) ==
    [k \in 1..((len + SliceLen - 1) \div SliceLen) |->
        [from |-> (k - 1) * ReplyLimit, to |-> Min((k - 1) * ReplyLimit + SliceLen, len)]]

\* [text[i:i + 1990] for i in range(0, len(text), 1990)], each slice as the
\* positions [from, to) it holds
Slices(len) ==
    [k \in 1..((len + SliceLen - 1) \div SliceLen) |->
        [from |-> (k - 1) * SliceLen, to |-> Min(k * SliceLen, len)]]

\* the messages that carry the response, in the order of sending
ResponseMessages(len) ==
    IF len > ReplyLimit
    THEN [k \in 1..Len(Slices(len)) |->
            [op |-> IF k = 1 THEN "reply" ELSE "send",
             from |-> Slices(len)[k].from, to |-> Slices(len)[k].to]]
    ELSE <<[op |-> "reply", from |-> 0, to |-> len]>>

\* the response is there: the time is noted
GeminiResponds(m) ==
    /\ mention_pc[m] = "awaiting"
    /\ \E len \in ResponseLens : ai_response_len' = [ai_response_len EXCEPT ![m] = len]
    /\ last_gemini_call_time' = now
    /\ mention_pc' = [mention_pc EXCEPT ![m] = "sending"]
    /\ UNCHANGED <<now, gemini_calls, replies>>
    /\ UNCHANGED <<parse_vars, pc, sent, fetch_call, chunk_vars, route_vars, daily_vars, music_vars, store_vars>>

\* the next message with the response, or with a slice of it, goes out
SendResponse(m) ==
    /\ mention_pc[m] = "sending"
    /\ LET ms == ResponseMessages(ai_response_len[m])
           k  == Len(replies[m]) + 1
       IN  /\ replies' = [replies EXCEPT ![m] = Append(@, ms[k])]
           /\ mention_pc' = [mention_pc EXCEPT ![m] = IF k = Len(ms) THEN "replied" ELSE "sending"]
    /\ UNCHANGED <<now, last_gemini_call_time, gemini_calls, ai_response_len>>
    /\ UNCHANGED <<parse_vars, pc, sent, fetch_call, chunk_vars, route_vars, daily_vars, music_vars, store_vars>>

\* the call raises: the except branch apologizes, the time is not noted
GeminiFails(m) ==
    /\ mention_pc[m] = "awaiting"
    /\ mention_pc' = [mention_pc EXCEPT ![m] = "apologized"]
    /\ UNCHANGED <<now, last_gemini_call_time, gemini_calls, ai_response_len, replies>>
    /\ UNCHANGED <<parse_vars, pc, sent, fetch_call, chunk_vars, route_vars, daily_vars, music_vars, store_vars>>

InitGemini ==
    /\ variant = "combined"
    /\ content = <<>>
    /\ pc = "routed"
    /\ base_currency = None
    /\ amount = One
    /\ target_currency = None
    /\ sent = <<>>
    /\ fetch_call = NoCall
    /\ rates_data = NoData
    /\ rate_lines = <<>>
    /\ next_line = 0
    /\ current_chunk = <<>>
    /\ message = [own |-> FALSE, dm |-> FALSE, mentioned |-> TRUE]
    /\ invoked = <<"handle_gemini_mention">>
    /\ GeminiAtRest
    /\ user_data = <<>>
    /\ DailyAtRest
    /\ MusicAtRest
    /\ user_records = [u \in Users |-> NoRecord]
    /\ StoreAtRest

NextGemini ==
    \/ Tick
    \/ \E m \in Mentions : MentionArrives(m)
    \/ \E m \in Mentions : CallGemini(m)
    \/ \E m \in Mentions : GeminiResponds(m)
    \/ \E m \in Mentions : SendResponse(m)
    \/ \E m \in Mentions : GeminiFails(m)

SpecGemini == InitGemini /\ [][NextGemini]_vars

\* the mention that arrives first
FirstMention == CHOOSE m \in Mentions : \A k \in Mentions : m <= k

\* the handler of one mention, from the arrival to the last message
NextReply ==
    \/ Tick
    \/ MentionArrives(FirstMention)
    \/ CallGemini(FirstMention)
    \/ GeminiResponds(FirstMention)
    \/ GeminiFails(FirstMention)
    \/ SendResponse(FirstMention)

SpecReply == InitGemini /\ [][NextReply]_vars

\* C18: any two calls of the Gemini API are at least MIN_DELAY_BETWEEN_CALLS
\* apart, whatever the order and the interleaving of the mentions.
C18_CallsApart ==
    \A i \in 1..Len(gemini_calls) : \A j \in 1..Len(gemini_calls) :
        i < j => gemini_calls[j] - gemini_calls[i] >= MIN_DELAY_BETWEEN_CALLS

-----------------------------------------------------------------------------
(* The daily horoscope task and the commands on the user data file *)

Event(kind, u) == [kind |-> kind, user |-> u]

\* del users[user_id]
Without(users, u) == SelectSeq(users, LAMBDA x : x # u)

IsIn(u, users) == \E i \in 1..Len(users) : users[i] = u

\* users[user_id] = sign: a new key goes to the end of the dict
WithUser(users, u) == IF IsIn(u, users) THEN users ELSE Append(users, u)

\* the end of one turn of the loop of the task
DailyAdvance ==
    /\ daily_i' = daily_i + 1
    /\ daily_pc' = IF daily_i + 1 > Len(daily_users) THEN "finished" ELSE "fetch_user"

\* the task starts: it loads the file once, returns if nobody is registered,
\* and else enters the loop, up to its first await
DailyRun ==
    /\ daily_pc = "idle"
    /\ daily_users' = user_data
    /\ IF user_data = <<>>
       THEN daily_pc' = "finished" /\ daily_i' = 0
       ELSE daily_pc' = "fetch_user" /\ daily_i' = 1
    /\ UNCHANGED <<user_data, command_pc, events>>
    /\ UNCHANGED <<parse_vars, pc, sent, fetch_call, chunk_vars, route_vars, gemini_vars, music_vars, store_vars>>

\* await bot.fetch_user returns the user or raises
DailyFetchUser ==
    /\ daily_pc = "fetch_user"
    /\ \E found \in BOOLEAN :
          IF found
          THEN daily_pc' = "send" /\ UNCHANGED daily_i
          ELSE DailyAdvance
    /\ UNCHANGED <<user_data, daily_users, command_pc, events>>
    /\ UNCHANGED <<parse_vars, pc, sent, fetch_call, chunk_vars, route_vars, gemini_vars, music_vars, store_vars>>

\* the direct message with the horoscope goes out, or the user takes none
DailySend ==
    /\ daily_pc = "send"
    /\ Len(events) < MaxEvents
    /\ \E forbidden \in BOOLEAN :
          events' = IF forbidden
                    THEN events
                    ELSE Append(events, Event("horoscope_dm", daily_users[daily_i]))
    /\ DailyAdvance
    /\ UNCHANGED <<user_data, daily_users, command_pc>>
    /\ UNCHANGED <<parse_vars, pc, sent, fetch_call, chunk_vars, route_vars, gemini_vars, music_vars, store_vars>>

\* the task waits for the next day
DailySleep ==
    /\ daily_pc = "finished"
    /\ daily_pc' = "idle"
    /\ daily_users' = <<>>
    /\ daily_i' = 0
    /\ UNCHANGED <<user_data, command_pc, events>>
    /\ UNCHANGED <<parse_vars, pc, sent, fetch_call, chunk_vars, route_vars, gemini_vars, music_vars, store_vars>>

\* ZodiacSelect.callback: the record of the user is saved
Register(u) ==
    /\ command_pc[u] = "idle"
    /\ Len(events) < MaxEvents
    /\ user_data' = WithUser(user_data, u)
    /\ events' = Append(events, Event("registered", u))
    /\ UNCHANGED <<daily_pc, daily_users, daily_i, command_pc>>
    /\ UNCHANGED <<parse_vars, pc, sent, fetch_call, chunk_vars, route_vars, gemini_vars, music_vars, store_vars>>

\* !remove, up to its await: the record, if there is one, is deleted and the
\* file saved
RemoveRecord(u) ==
    /\ command_pc[u] = "idle"
    /\ IF IsIn(u, user_data)
       THEN /\ user_data' = Without(user_data, u)
            /\ command_pc' = [command_pc EXCEPT ![u] = "confirm_deleted"]
       ELSE /\ command_pc' = [command_pc EXCEPT ![u] = "confirm_nothing"]
            /\ UNCHANGED user_data
    /\ UNCHANGED <<daily_pc, daily_users, daily_i, events>>
    /\ UNCHANGED <<parse_vars, pc, sent, fetch_call, chunk_vars, route_vars, gemini_vars, music_vars, store_vars>>

\* !remove: the answer is on the channel
RemoveAnswers(u) ==
    /\ command_pc[u] \in {"confirm_deleted", "confirm_nothing"}
    /\ Len(events) < MaxEvents
    /\ events' = Append(events, Event(IF command_pc[u] = "confirm_deleted"
                                      THEN "deleted"
                                      ELSE "nothing_to_delete", u))
    /\ command_pc' = [command_pc EXCEPT ![u] = "idle"]
    /\ UNCHANGED <<user_data, daily_pc, daily_users, daily_i>>
    /\ UNCHANGED <<parse_vars, pc, sent, fetch_call, chunk_vars, route_vars, gemini_vars, music_vars, store_vars>>

\* the files the bot may start with: every order of every set of users
UserFiles ==
    {f \in UNION {[1..n -> Users] : n \in 0..NumUsers} :
        \A i \in 1..Len(f) : \A j \in 1..Len(f) : i # j => f[i] # f[j]}

InitDaily ==
    /\ variant = "combined"
    /\ content = <<>>
    /\ pc = "routed"
    /\ base_currency = None
    /\ amount = One
    /\ target_currency = None
    /\ sent = <<>>
    /\ fetch_call = NoCall
    /\ rates_data = NoData
    /\ rate_lines = <<>>
    /\ next_line = 0
    /\ current_chunk = <<>>
    /\ message = PlainMessage
    /\ invoked = <<>>
    /\ GeminiAtRest
    /\ user_data \in UserFiles
    /\ DailyAtRest
    /\ MusicAtRest
    /\ user_records = [u \in Users |-> NoRecord]
    /\ StoreAtRest

NextDaily ==
    \/ DailyRun
    \/ DailyFetchUser
    \/ DailySend
    \/ DailySleep
    \/ \E u \in Users : Register(u)
    \/ \E u \in Users : RemoveRecord(u)
    \/ \E u \in Users : RemoveAnswers(u)

SpecDaily == InitDaily /\ [][NextDaily]_vars

\* C19: once !remove has confirmed the deletion of a user's record, the user
\* gets no daily horoscope by direct message before registering again, also
\* if the record is removed while a run of the daily task is under way.
C19_NoHoroscopeAfterRemove ==
    \A u \in Users : \A i \in 1..Len(events) : \A j \in 1..Len(events) :
        (i < j /\ events[i] = Event("deleted", u) /\ events[j] = Event("horoscope_dm", u)) =>
            \E k \in (i + 1)..(j - 1) : events[k] = Event("registered", u)

-----------------------------------------------------------------------------
(* C21: the messages of a rate list and the limit of the platform *)

\* the longest message the platform takes
PlatformLimit == 2000

\* the messages that carry a rate list or its header
IsListMessage(m) == m.what \in {"header", "chunk", "list"}

ListMessages == SelectSeq(sent, IsListMessage)

\* the table returned has no line longer than the chunk limit
LinesWithinLimit ==
    \A i \in 1..Len(rates_data.rates) : rates_data.rates[i] <= ChunkLimit

\* C21: if no rendered line is longer than 1900, every message sent for a
\* rate list, code fence included, is at most 2000 long, on the chunked path
\* and on the single-message path of currency.py.
C21_MessagesFitPlatform ==
    LinesWithinLimit =>
        \A i \in 1..Len(ListMessages) : TextLen(ListMessages[i].text) <= PlatformLimit

\* a list in a single message that is longer than the chunk limit
C21_Witness ==
    /\ pc = "done"
    /\ LinesWithinLimit
    /\ \E i \in 1..Len(ListMessages) :
          /\ ListMessages[i].what = "list"
          /\ TextLen(ListMessages[i].text) > ChunkLimit

-----------------------------------------------------------------------------
(* C22: the response of the model in messages *)

\* the messages of mention m so far continue each other from the start of the text
Consecutive(m) ==
    /\ replies[m] # <<>> => replies[m][1].from = 0
    /\ \A k \in 1..(Len(replies[m]) - 1) : replies[m][k + 1].from = replies[m][k].to

\* C22: a response longer than 2000 goes out in slices that are not empty,
\* at most 1990 long, and that continue each other from the start to the end
\* of the text; the first one is a reply, the others are channel messages;
\* a response of at most 2000 is one reply with the whole text.
C22_ResponseInSlices ==
    \A m \in Mentions :
        /\ Consecutive(m)
        /\ \A k \in 1..Len(replies[m]) :
              /\ replies[m][k].to > replies[m][k].from
              /\ replies[m][k].op = (IF k = 1 THEN "reply" ELSE "send")
              /\ ai_response_len[m] > 2000 => replies[m][k].to - replies[m][k].from <= 1990
        /\ mention_pc[m] = "replied" =>
              /\ replies[m][Len(replies[m])].to = ai_response_len[m]
              /\ ai_response_len[m] <= 2000 => Len(replies[m]) = 1

\* a response of two full slices and one character more has gone out
C22_Witness ==
    \E m \in Mentions :
        /\ mention_pc[m] = "replied"
        /\ ai_response_len[m] > 2 * 1990
        /\ Len(replies[m]) = 3
        /\ replies[m][3].op = "send"

-----------------------------------------------------------------------------
(* C23, C24: one route for a message, none for the bot's own *)

\* the variants whose on_message knows both mentions and commands
HasCommandsAndMentions == variant = "combined"

Routed == pc # "on_message"

\* C23: a server message that mentions the bot goes to the mention handler
\* and nowhere else, also if it starts with the prefix or is a registered
\* command; and no message is handled by more than one of the routes.
C23_MentionOnlyToAI ==
    /\ (Routed /\ HasCommandsAndMentions /\ message.mentioned /\ ~message.dm /\ ~message.own) =>
          /\ invoked = <<"handle_gemini_mention">>
          /\ pc = "routed"
          /\ base_currency = None
          /\ sent = <<>>
    /\ Len(invoked) <= 1

\* !help with a mention of the bot has gone to the mention handler
C23_Witness ==
    /\ HasCommandsAndMentions
    /\ pc = "routed"
    /\ message = [own |-> FALSE, dm |-> FALSE, mentioned |-> TRUE]
    /\ content = <<"!", "h", "e", "l", "p">>
    /\ invoked = <<"handle_gemini_mention">>

\* C24: a message the bot wrote itself calls no handler and leads to no
\* message of the bot, in every file with an on_message.
C24_OwnMessageIgnored ==
    (Routed /\ message.own) =>
        /\ invoked = <<>>
        /\ pc = "routed"
        /\ sent = <<>>
        /\ fetch_call = NoCall
        /\ base_currency = None

\* the bot's own message that reads like a currency command and mentions the bot
C24_Witness ==
    /\ pc = "routed"
    /\ message = [own |-> TRUE, dm |-> FALSE, mentioned |-> TRUE]
    /\ content = <<"!", "u", "s", "d">>
    /\ invoked = <<>>

-----------------------------------------------------------------------------
(* v12.py: the search for songs and the download of one of them *)

\* songs[:10]
ShownSongs == 10

\* how many songs the service may find
FoundCounts == {0, 1, 2, ShownSongs, MaxFound}

\* the numbers a user may give to !d: below 1, in the list, beyond it
SongNumbers == {-1, 0, 1, 2, 3, ShownSongs, ShownSongs + 1}

\* the songs found for the search of user u, in the order of the service
Found(u, n) == [i \in 1..n |-> [owner |-> u, pos |-> i]]

\* list[i] of Python: positions from 0, negative ones from the end, and
\* IndexError outside
PyIndex(list, i) ==
    IF 0 <= i /\ i < Len(list)
    THEN [ok |-> TRUE, val |-> list[i + 1]]
    ELSE IF i < 0 /\ -i <= Len(list)
         THEN [ok |-> TRUE, val |-> list[Len(list) + i + 1]]
         ELSE [ok |-> FALSE, val |-> NoSong]

\* the test without its lower end
ValidNumberNoLowerEnd(song_number, len) == song_number <= len

\* 1 <= song_number <= len(search_results_cache[user_id])
ValidNumber(song_number, len) == 1 <= song_number /\ song_number <= len

\* !s, up to the typing indicator: the list of the user is emptied
SearchSong(u) ==
    /\ music_pc[u] = "idle"
    /\ cache_users' = cache_users \cup {u}
    /\ search_results_cache' = [search_results_cache EXCEPT ![u] = <<>>]
    /\ music_pc' = [music_pc EXCEPT ![u] = "searching"]
    /\ UNCHANGED download
    /\ UNCHANGED <<parse_vars, pc, sent, fetch_call, chunk_vars, route_vars, gemini_vars, daily_vars, store_vars>>

\* !s, the rest: the request fails, finds nothing, or finds songs, of which
\* the first ten are cached and shown
SearchReturns(u) ==
    /\ music_pc[u] = "searching"
    /\ \E failed \in BOOLEAN : \E n \in FoundCounts :
          search_results_cache' =
              IF failed \/ n = 0
              THEN search_results_cache
              ELSE [search_results_cache EXCEPT ![u] =
                       SubSeq(Found(u, n), 1, Min(n, ShownSongs))]
    /\ music_pc' = [music_pc EXCEPT ![u] = "idle"]
    /\ UNCHANGED <<cache_users, download>>
    /\ UNCHANGED <<parse_vars, pc, sent, fetch_call, chunk_vars, route_vars, gemini_vars, daily_vars, store_vars>>

\* !d: the two tests, the look into the list, and the download
DownloadSong(u, song_number) ==
    /\ LET list == search_results_cache[u]
           picked == PyIndex(list, song_number - 1)
       IN  \E fetched \in {"no_format", "downloaded", "download_error"} :
              download' =
                  [user |-> u, number |-> song_number, size |-> Len(list),
                   result |-> IF u \notin cache_users \/ list = <<>>
                              THEN "need_search"
                              ELSE IF ~ValidNumber(song_number, Len(list))
                                   THEN "invalid"
                                   ELSE IF picked.ok THEN fetched ELSE "raised",
                   song |-> IF u \in cache_users /\ list # <<>>
                               /\ ValidNumber(song_number, Len(list))
                            THEN picked.val
                            ELSE NoSong]
    /\ UNCHANGED <<cache_users, search_results_cache, music_pc>>
    /\ UNCHANGED <<parse_vars, pc, sent, fetch_call, chunk_vars, route_vars, gemini_vars, daily_vars, store_vars>>

InitMusic ==
    /\ variant = "combined"
    /\ content = <<>>
    /\ pc = "routed"
    /\ base_currency = None
    /\ amount = One
    /\ target_currency = None
    /\ sent = <<>>
    /\ fetch_call = NoCall
    /\ rates_data = NoData
    /\ rate_lines = <<>>
    /\ next_line = 0
    /\ current_chunk = <<>>
    /\ message = PlainMessage
    /\ invoked = <<"process_commands">>
    /\ GeminiAtRest
    /\ user_data = <<>>
    /\ DailyAtRest
    /\ MusicAtRest
    /\ user_records = [u \in Users |-> NoRecord]
    /\ StoreAtRest

NextMusic ==
    \/ \E u \in Users : SearchSong(u)
    \/ \E u \in Users : SearchReturns(u)
    \/ \E u \in Users : \E n \in SongNumbers : DownloadSong(u, n)

SpecMusic == InitMusic /\ [][NextMusic]_vars

\* the last !d went on to a song
SongPicked == download.result \in {"no_format", "downloaded", "download_error"}

\* C25: !d never looks outside the list cached for the user: it is turned
\* down with no download if the user has no list or an empty one, or if the
\* number is not in 1..len(list); else it takes entry song_number - 1 of the
\* list of that very user; and no list is longer than 10.
C25_DownloadWithinList ==
    /\ \A u \in Users : Len(search_results_cache[u]) <= 10
    /\ download.result # "raised"
    /\ download.result # "none" =>
          /\ download.size = 0 <=> download.result = "need_search"
          /\ (download.size > 0 /\ download.number \notin 1..download.size)
                <=> download.result = "invalid"
          /\ SongPicked <=> download.song # NoSong
          /\ SongPicked =>
                /\ download.number \in 1..download.size
                /\ download.song = [owner |-> download.user, pos |-> download.number]

\* the tenth of ten songs, with the other user's list in place
C25_Witness ==
    /\ download.result = "downloaded"
    /\ download.number = 10
    /\ download.size = 10
    /\ \E u \in Users : u # download.user /\ Len(search_results_cache[u]) = 2

-----------------------------------------------------------------------------
(* v10.py: the records of the users, with sign and timezone *)

Signs == {"Aries", "Leo"}

\* a value of the timezone menus
Offsets == {"8"}

\* a record as v10 writes it
Record(sign, offset) == [kind |-> "dict", sign |-> sign, timezone_offset |-> offset]

\* a record as the bots without timezones wrote it: the sign alone
LegacyRecord(sign) == [kind |-> "str", sign |-> sign, timezone_offset |-> ""]

\* the records a file may hold when the bot starts
StartRecords ==
    {NoRecord}
      \cup {LegacyRecord(s) : s \in Signs}
      \cup {Record(s, "+0") : s \in Signs}

\* 'if user_data': there is a record
Truthy(rec) == rec.kind # "none"

\* a menu: of whom, which, and the sign it carries ("" for None)
View(u, menu, sign) == [user |-> u, menu |-> menu, sign |-> sign]

Notice(u, kind, sign, offset) ==
    [user |-> u, kind |-> kind, sign |-> sign, timezone_offset |-> offset]

\* there is room for the menu
CanOpen(v) == Cardinality(views \cup {v}) <= MaxViews

\* the assignment that drops the entries of all others
WriteEntryAlone(users, u, rec) == [v \in Users |-> IF v = u THEN rec ELSE NoRecord]

\* users[user_id] = rec, or del users[user_id] for NoRecord
WriteEntry(users, u, rec) == [users EXCEPT ![u] = rec]

\* the sign saved at once for a user without a record, as before v10
AfterSignSavesAlone(users, u, selected_sign) ==
    IF Truthy(users[u])
    THEN IF users[u].kind = "str"
         THEN WriteEntry(users, u, Record(selected_sign, "+0"))
         ELSE WriteEntry(users, u, [users[u] EXCEPT !.sign = selected_sign])
    ELSE WriteEntry(users, u, LegacyRecord(selected_sign))

\* ZodiacSelect.callback: users after the choice of a sign
AfterSign(users, u, selected_sign) ==
    IF Truthy(users[u])
    THEN IF users[u].kind = "str"
         THEN WriteEntry(users, u, Record(selected_sign, "+0"))
         ELSE WriteEntry(users, u, [users[u] EXCEPT !.sign = selected_sign])
    ELSE users

\* the choice of a timezone without the test for a sign
AfterTimezoneUntested(users, u, sign, offset_str) ==
    IF Truthy(users[u]) /\ sign = ""
    THEN IF users[u].kind = "str"
         THEN [ok |-> TRUE,
               users |-> WriteEntry(users, u, Record(users[u].sign, offset_str))]
         ELSE [ok |-> TRUE,
               users |-> WriteEntry(users, u, [users[u] EXCEPT !.timezone_offset = offset_str])]
    ELSE [ok |-> TRUE, users |-> WriteEntry(users, u, Record(sign, offset_str))]

\* handle_timezone_selection: users after the choice of a timezone, or the
\* error
AfterTimezone(users, u, sign, offset_str) ==
    IF Truthy(users[u]) /\ sign = ""
    THEN IF users[u].kind = "str"
         THEN [ok |-> TRUE,
               users |-> WriteEntry(users, u, Record(users[u].sign, offset_str))]
         ELSE [ok |-> TRUE,
               users |-> WriteEntry(users, u, [users[u] EXCEPT !.timezone_offset = offset_str])]
    ELSE IF sign = ""
         THEN [ok |-> FALSE, users |-> users]
         ELSE [ok |-> TRUE, users |-> WriteEntry(users, u, Record(sign, offset_str))]

\* !reg
Reg(u) ==
    /\ loaded' = user_records
    /\ IF Truthy(user_records[u])
       THEN /\ notice' = Notice(u, "already_registered", "", "")
            /\ UNCHANGED views
       ELSE /\ CanOpen(View(u, "zodiac", ""))
            /\ views' = views \cup {View(u, "zodiac", "")}
            /\ notice' = Notice(u, "select_sign", "", "")
    /\ UNCHANGED user_records
    /\ UNCHANGED <<parse_vars, pc, sent, fetch_call, chunk_vars, route_vars, gemini_vars, daily_vars, music_vars>>

\* !mod
Mod(u) ==
    /\ loaded' = user_records
    /\ IF ~Truthy(user_records[u])
       THEN /\ notice' = Notice(u, "not_registered", "", "")
            /\ UNCHANGED views
       ELSE /\ CanOpen(View(u, "zodiac", ""))
            /\ views' = views \cup {View(u, "zodiac", "")}
            /\ notice' = Notice(u, "select_sign", "", "")
    /\ UNCHANGED user_records
    /\ UNCHANGED <<parse_vars, pc, sent, fetch_call, chunk_vars, route_vars, gemini_vars, daily_vars, music_vars>>

\* !modtz
ModTz(u) ==
    /\ loaded' = user_records
    /\ IF ~Truthy(user_records[u])
       THEN /\ notice' = Notice(u, "not_registered", "", "")
            /\ UNCHANGED views
       ELSE /\ CanOpen(View(u, "timezone", ""))
            /\ views' = views \cup {View(u, "timezone", "")}
            /\ notice' = Notice(u, "select_timezone", "", "")
    /\ UNCHANGED user_records
    /\ UNCHANGED <<parse_vars, pc, sent, fetch_call, chunk_vars, route_vars, gemini_vars, daily_vars, music_vars>>

\* ZodiacSelect.callback: the author of a sign menu chooses a sign
SelectSign(u, selected_sign) ==
    /\ View(u, "zodiac", "") \in views
    /\ loaded' = user_records
    /\ user_records' = AfterSign(user_records, u, selected_sign)
    /\ IF Truthy(user_records[u])
       THEN /\ views' = views \ {View(u, "zodiac", "")}
            /\ notice' = Notice(u, "sign_updated", selected_sign, "")
       ELSE /\ views' = (views \ {View(u, "zodiac", "")})
                          \cup {View(u, "timezone", selected_sign)}
            /\ notice' = Notice(u, "select_timezone", selected_sign, "")
    /\ UNCHANGED <<parse_vars, pc, sent, fetch_call, chunk_vars, route_vars, gemini_vars, daily_vars, music_vars>>

\* handle_timezone_selection: the author of a timezone menu chooses an offset
SelectTimezone(v, offset_str) ==
    /\ v \in views
    /\ v.menu = "timezone"
    /\ loaded' = user_records
    /\ LET r == AfterTimezone(user_records, v.user, v.sign, offset_str)
       IN  /\ user_records' = r.users
           /\ notice' = Notice(v.user, IF r.ok THEN "timezone_set" ELSE "went_wrong",
                               v.sign, offset_str)
    /\ views' = views \ {v}
    /\ UNCHANGED <<parse_vars, pc, sent, fetch_call, chunk_vars, route_vars, gemini_vars, daily_vars, music_vars>>

\* !remove of v10
RemoveUserRecord(u) ==
    /\ loaded' = user_records
    /\ IF Truthy(user_records[u])
       THEN /\ user_records' = WriteEntry(user_records, u, NoRecord)
            /\ notice' = Notice(u, "deleted", "", "")
       ELSE /\ notice' = Notice(u, "nothing_to_delete", "", "")
            /\ UNCHANGED user_records
    /\ UNCHANGED views
    /\ UNCHANGED <<parse_vars, pc, sent, fetch_call, chunk_vars, route_vars, gemini_vars, daily_vars, music_vars>>

InitStore ==
    /\ variant = "combined"
    /\ content = <<>>
    /\ pc = "routed"
    /\ base_currency = None
    /\ amount = One
    /\ target_currency = None
    /\ sent = <<>>
    /\ fetch_call = NoCall
    /\ rates_data = NoData
    /\ rate_lines = <<>>
    /\ next_line = 0
    /\ current_chunk = <<>>
    /\ message = PlainMessage
    /\ invoked = <<"process_commands">>
    /\ GeminiAtRest
    /\ user_data = <<>>
    /\ DailyAtRest
    /\ MusicAtRest
    /\ user_records \in [Users -> StartRecords]
    /\ StoreAtRest

NextStore ==
    \/ \E u \in Users : Reg(u)
    \/ \E u \in Users : Mod(u)
    \/ \E u \in Users : ModTz(u)
    \/ \E u \in Users : \E s \in Signs : SelectSign(u, s)
    \/ \E v \in views : \E o \in Offsets : SelectTimezone(v, o)
    \/ \E u \in Users : RemoveUserRecord(u)

SpecStore == InitStore /\ [][NextStore]_vars

-----------------------------------------------------------------------------
(* C26..C28: what the handlers of v10 do to the records *)

Registered(users, u) == users[u].kind # "none"

\* C26: a user without a record gets one only by the choice of a timezone
\* that follows the choice of a sign: the choice of the sign alone leaves
\* all records as they are, and every record a handler writes is a mapping
\* with a sign and a timezone offset.
C26_RecordNeedsSignAndTimezone ==
    /\ (notice.kind = "select_timezone" /\ notice.sign # "") =>
          /\ user_records = loaded
          /\ ~Registered(user_records, notice.user)
    /\ \A u \in Users :
          (~Registered(loaded, u) /\ Registered(user_records, u)) =>
              /\ notice.user = u
              /\ notice.kind = "timezone_set"
              /\ notice.sign \in Signs
              /\ user_records[u].sign = notice.sign
              /\ user_records[u].timezone_offset = notice.timezone_offset
    /\ \A u \in Users :
          (user_records[u] # loaded[u] /\ Registered(user_records, u)) =>
              /\ user_records[u].kind = "dict"
              /\ user_records[u].sign \in Signs
              /\ user_records[u].timezone_offset # ""

\* a user without a record has chosen a sign and sees the timezone menu
C26_Witness ==
    /\ notice.kind = "select_timezone"
    /\ notice.sign \in Signs
    /\ ~Registered(user_records, notice.user)
    /\ View(notice.user, "timezone", notice.sign) \in views

\* C27: whatever the order in which the handlers of several users run, a
\* handler works on the records as they are when it starts and changes the
\* entry of its own user only, so that no update of another user is lost.
C27_OnlyOwnEntryChanges ==
    [][/\ \A v \in Users : v # notice'.user => user_records'[v] = user_records[v]
       /\ user_records' # user_records => loaded' = user_records]_vars

\* a user has registered while the timezone menu of another, registered
\* user was open
C27_Witness ==
    /\ notice.kind = "timezone_set"
    /\ ~Registered(loaded, notice.user)
    /\ Registered(user_records, notice.user)
    /\ \E v \in Users :
          /\ v # notice.user
          /\ Registered(user_records, v)
          /\ View(v, "timezone", "") \in views

\* C28: the choice of a timezone in a menu of !modtz by a user whose record
\* is gone (no record, no sign in the menu) answers with an error and leaves
\* the records as they are; no record is without a sign.
C28_TimezoneWithoutSignRejected ==
    /\ (/\ notice.kind \in {"timezone_set", "went_wrong"}
        /\ notice.sign = ""
        /\ ~Registered(loaded, notice.user)) =>
          /\ notice.kind = "went_wrong"
          /\ user_records = loaded
    /\ notice.kind = "went_wrong" => ~Registered(user_records, notice.user)
    /\ \A u \in Users : Registered(user_records, u) => user_records[u].sign \in Signs

\* the error after !modtz, !remove and the choice of a timezone, with the
\* record of another user in place
C28_Witness ==
    /\ notice.kind = "went_wrong"
    /\ notice.timezone_offset \in Offsets
    /\ \E v \in Users : v # notice.user /\ Registered(user_records, v)

====
